---- MODULE Spec2Model ----
(***************************************************************************)
(* Model of tute_demo.py: an MPI program in which every rank scans the     *)
(* same CSV file of tweets, counts patterns over the rows of its own       *)
(* partition (index mod size = rank), and rank 0 (the master) pulls the    *)
(* workers' count tables with 'return_data', merges them, releases the     *)
(* workers with 'exit' and prints the result.                              *)
(***************************************************************************)
EXTENDS Integers, Sequences, FiniteSets, TLC

\* ---------------------------------------------------------------- bounds
MaxProcs   == 3     \* largest communicator size explored
MaxRecords == 2     \* largest number of CSV rows explored
MaxCount   == 2     \* largest count in a table fed to the merge laws

\* ------------------------------------------------------------- constants
MASTER_RANK == 0

\* A token of a tweet's text: a sigil ("@", "#" or "") and a word.
Tok(s, w) == [sigil |-> s, word |-> w]

\* Payloads of the 'value' column: well-formed JSON with a text, or not JSON.
Payloads ==
  { [wellformed |-> TRUE,  text |-> <<Tok("@", "a")>>],
    [wellformed |-> TRUE,  text |-> <<Tok("@", "a"), Tok("#", "t")>>],
    [wellformed |-> FALSE, text |-> <<>>] }

\* What csv.DictReader yields at one position: a row, or csv.Error.
Rows == [csvError : {FALSE}, value : Payloads]
          \cup { [csvError |-> TRUE, value |-> [wellformed |-> FALSE, text |-> <<>>]] }

\* search_type values read_arguments can return.
SearchTypes == {"mentions", "string_search"}

VARIABLES
  size,         \* comm.Get_size()
  stype,        \* search type
  squery,       \* search query
  rows,         \* the rows of the input file, in order
  openOK,       \* openOK[r]: open(input_file) succeeds in rank r
  pc,           \* pc[r]: where rank r is
  i,            \* i[r]: enumerate index in process_tweets
  tweet,        \* tweet[r]: local variable 'tweet' of process_tweets
  occurrences,  \* occurrences[r]: the accumulator of process_tweets; for
                \* rank 0 also 'occurrences' of master_tweet_processor
  err,          \* err[r]: the uncaught exception that ended rank r, or "none"
  k,            \* loop index of the master's loops
  counts,       \* list 'counts' of marshall_tweet
  toWorker,     \* toWorker[r]: messages in flight from rank 0 to rank r
  toMaster,     \* toMaster[r]: messages in flight from rank r to rank 0
  \* history
  counted,      \* counted[r]: indices at which process_tweet completed
  returned,     \* returned[r]: <<table>> once process_tweets returned
  got,          \* got[r]: the commands worker r received, in order
  nsent,        \* nsent[r]: tables worker r sent
  merged,       \* ranks whose table the master folded into occurrences
  presented,    \* <<table>> once print_output was called
  sends,        \* messages the master sent
  recvs,        \* messages the master received
  \* merge laws
  mA, mB, mC, mres

vars == <<size, stype, squery, rows, openOK, pc, i, tweet, occurrences, err,
          k, counts, toWorker, toMaster, counted, returned, got, nsent,
          merged, presented, sends, recvs, mA, mB, mC, mres>>

inputs == <<size, stype, squery, rows, openOK>>
history == <<counted, returned, got, nsent, merged, presented, sends, recvs>>
mergevars == <<mA, mB, mC, mres>>

Ranks == 0 .. size - 1
Workers == 1 .. size - 1

EmptyTable == <<>>

\* ------------------------------------------------------------ merge engine
\* for k, v in b.items(): a[k] = a.setdefault(k, 0) + v
Get(t, key) == IF key \in DOMAIN t THEN t[key] ELSE 0

merge_overwrite(a, b) ==
  [key \in DOMAIN a \cup DOMAIN b |-> IF key \in DOMAIN b THEN b[key] ELSE a[key]]

merge(a, b) ==
  [key \in DOMAIN a \cup DOMAIN b |-> Get(a, key) + Get(b, key)]

RECURSIVE merge_all(_, _)
merge_all(acc, ds) ==
  IF ds = <<>> THEN acc ELSE merge_all(merge(acc, Head(ds)), Tail(ds))

\* ------------------------------------------------------- Python's str 'in'
\* s in t (substring test) for the strings this model uses.
Strings == {"mentions", "topic", "topics", "string_search", "return_data", "exit",
            "", "it", "stop"}
SubstringPairs ==
  { <<s, s>> : s \in Strings } \cup { <<"", s>> : s \in Strings }
    \cup { <<"topic", "topics">>, <<"it", "exit">> }
InStr(s, t) == <<s, t>> \in SubstringPairs

\* ------------------------------------------------------ outcomes of calls
Ok(v)    == [exc |-> "none", value |-> v]
Raise(e) == [exc |-> e, value |-> <<>>]

\* ------------------------------------------------- the local 'tweet' value
Unbound  == [type |-> "unbound"]
Str(p)   == [type |-> "str", payload |-> p]
Dict(tx) == [type |-> "dict", text |-> tx]

\* --------------------------------------------------------------- counting
MENTION_REGEX == [kind |-> "sigil", sigil |-> "@", q |-> ""]
TOPIC_REGEX   == [kind |-> "sigil", sigil |-> "#", q |-> ""]
WordRegex(q)  == [kind |-> "word", sigil |-> "", q |-> q]   \* '\\b' + q + '\\b'

\* re.findall: the matched strings, in order of appearance.
RECURSIVE findall(_, _)
findall(regex, text) ==
  IF text = <<>> THEN <<>>
  ELSE LET t == Head(text)
           m == IF regex.kind = "sigil"
                  THEN IF t.sigil = regex.sigil THEN <<t>> ELSE <<>>
                  ELSE IF t.word = regex.q THEN <<Tok("", regex.q)>> ELSE <<>>
       IN  m \o findall(regex, Tail(text))

RECURSIVE count_occurrences(_, _)
count_occurrences(cnts, occs) ==
  IF occs = <<>> THEN cnts
  ELSE count_occurrences(
         [key \in DOMAIN cnts \cup {Head(occs)} |->
            IF key = Head(occs) THEN Get(cnts, key) + 1 ELSE cnts[key]],
         Tail(occs))

count_regex(tw, regex) == count_occurrences(EmptyTable, findall(regex, tw.text))
trending_topics(tw) == count_regex(tw, TOPIC_REGEX)
user_mentions(tw)   == count_regex(tw, MENTION_REGEX)

\* json.load(fp) reads fp.read(); it is handed a str, which has no read().
json_load(s) == Raise("AttributeError")

\* re.sub needs a str; json.load is then called on the str.
tweet_to_json(tw) ==
  IF tw.type # "str" THEN Raise("TypeError") ELSE json_load(tw)

process_tweet(cnts, st, sq, tw) ==
  IF InStr(st, "mentions") THEN Ok(merge(cnts, user_mentions(tw)))
  ELSE IF InStr(st, "topic") THEN Ok(merge(cnts, trending_topics(tw)))
  ELSE IF InStr(st, "string_search") THEN Ok(merge(cnts, count_regex(tw, WordRegex(sq))))
  ELSE Raise("UnboundLocalError")

\* i % processes == rank
in_partition(idx, processes, rank) == idx % processes = rank

\* ------------------------------------------------------------------- Init
RECURSIVE SeqsUpTo(_, _)
SeqsUpTo(S, n) ==
  IF n = 0 THEN {<<>>}
  ELSE LET shorter == SeqsUpTo(S, n - 1)
       IN  shorter \cup { Append(q, x) : q \in shorter, x \in S }

NoMergeInputs ==
  /\ mA = EmptyTable /\ mB = EmptyTable /\ mC = EmptyTable
  /\ mres = <<>>

Init ==
  /\ size \in 1 .. MaxProcs
  /\ stype \in SearchTypes
  /\ squery = IF stype = "string_search" THEN "a" ELSE ""
  /\ rows \in SeqsUpTo(Rows, MaxRecords)
  /\ openOK \in [0 .. size - 1 -> BOOLEAN]
  /\ pc = [r \in 0 .. size - 1 |-> "open"]
  /\ i = [r \in 0 .. size - 1 |-> 0]
  /\ tweet = [r \in 0 .. size - 1 |-> Unbound]
  /\ occurrences = [r \in 0 .. size - 1 |-> EmptyTable]
  /\ err = [r \in 0 .. size - 1 |-> "none"]
  /\ k = 0
  /\ counts = <<>>
  /\ toWorker = [r \in 0 .. size - 1 |-> <<>>]
  /\ toMaster = [r \in 0 .. size - 1 |-> <<>>]
  /\ counted = [r \in 0 .. size - 1 |-> <<>>]
  /\ returned = [r \in 0 .. size - 1 |-> <<>>]
  /\ got = [r \in 0 .. size - 1 |-> <<>>]
  /\ nsent = [r \in 0 .. size - 1 |-> 0]
  /\ merged = {}
  /\ presented = <<>>
  /\ sends = <<>>
  /\ recvs = <<>>
  /\ NoMergeInputs

\* ------------------------------------------------------- process_tweets
\* An uncaught exception ends the process.
Crash(r, e) ==
  /\ pc' = [pc EXCEPT ![r] = "crashed"]
  /\ err' = [err EXCEPT ![r] = e]

\* 'return occurrences', and what the caller does next: the master goes on
\* to collect when there are workers, a worker waits for a command.
needs_marshall_always(sz) == sz >= 1

needs_marshall_off_by_one(sz) == sz > 2

needs_marshall(sz) == sz > 1

AfterCounting(r) ==
  IF r = MASTER_RANK
    THEN IF needs_marshall(size) THEN "send_req" ELSE "print"
    ELSE "await"

Return(r) ==
  /\ returned' = [returned EXCEPT ![r] = <<occurrences[r]>>]
  /\ pc' = [pc EXCEPT ![r] = AfterCounting(r)]
  /\ UNCHANGED <<i, tweet, occurrences, err, counted>>

\* with open(input_file) as f
open_fails_swallowed(ok) == FALSE

open_fails(ok) == ~ok

Open(r) ==
  /\ pc[r] = "open"
  /\ IF open_fails(openOK[r])
       THEN Crash(r, "OSError")
       ELSE /\ pc' = [pc EXCEPT ![r] = "rows"]
            /\ UNCHANGED err
  /\ UNCHANGED <<inputs, i, tweet, occurrences, k, counts, toWorker, toMaster,
                 history, mergevars>>

\* csv.Error raised by the reader is caught around the loop: the loop ends.
csv_error_ends_loop(row) == row.csvError

\* One pass of 'for i, line in enumerate(rows)', or its end.
ReadRow(r) ==
  /\ pc[r] = "rows"
  /\ IF i[r] = Len(rows) \/ csv_error_ends_loop(rows[i[r] + 1])
       THEN Return(r)
       ELSE LET line == rows[i[r] + 1]
                tw == IF in_partition(i[r], size, r) THEN Str(line.value)
                      ELSE tweet[r]
                d == tweet_to_json(tw)
                p == process_tweet(occurrences[r], stype, squery, d.value)
            IN  /\ UNCHANGED returned
                /\ IF tw = Unbound
                     THEN /\ Crash(r, "UnboundLocalError")
                          /\ UNCHANGED <<i, tweet, occurrences, counted>>
                   ELSE IF d.exc = "ValueError"
                     THEN /\ tweet' = [tweet EXCEPT ![r] = tw]
                          /\ i' = [i EXCEPT ![r] = @ + 1]
                          /\ UNCHANGED <<pc, err, occurrences, counted>>
                   ELSE IF d.exc # "none"
                     THEN /\ Crash(r, d.exc)
                          /\ tweet' = [tweet EXCEPT ![r] = tw]
                          /\ UNCHANGED <<i, occurrences, counted>>
                   ELSE IF p.exc # "none"
                     THEN /\ Crash(r, p.exc)
                          /\ tweet' = [tweet EXCEPT ![r] = d.value]
                          /\ UNCHANGED <<i, occurrences, counted>>
                   ELSE /\ tweet' = [tweet EXCEPT ![r] = d.value]
                        /\ occurrences' = [occurrences EXCEPT ![r] = p.value]
                        /\ counted' = [counted EXCEPT ![r] = Append(@, i[r])]
                        /\ i' = [i EXCEPT ![r] = @ + 1]
                        /\ UNCHANGED <<pc, err>>
  /\ UNCHANGED <<inputs, k, counts, toWorker, toMaster, got, nsent, merged,
                 presented, sends, recvs, mergevars>>

\* --------------------------------------------------------- message passing
Msg(t, b) == [tag |-> t, body |-> b]

\* comm.recv(source, tag) takes the earliest message of that source with
\* that tag: 0 when there is none.
FirstMatch(q, t) ==
  IF \E j \in 1 .. Len(q) : q[j].tag = t
    THEN CHOOSE j \in 1 .. Len(q) :
           /\ q[j].tag = t
           /\ \A h \in 1 .. j - 1 : q[h].tag # t
    ELSE 0

RemoveAt(q, j) == SubSeq(q, 1, j - 1) \o SubSeq(q, j + 1, Len(q))

\* ---------------------------------------------------------- marshall_tweet
\* for i in range(processes-1): comm.send('return_data', dest=i+1, tag=i+1)
request_count_short(processes) == processes - 2

request_count(processes) == processes - 1

\* dest=(i+1), tag=(i+1) of the request
request_rank_self(idx) == idx

request_rank(idx) == idx + 1

SendRequest ==
  /\ pc[MASTER_RANK] = "send_req"
  /\ k < request_count(size)
  /\ toWorker' = [toWorker EXCEPT
                    ![request_rank(k)] = Append(@, Msg(request_rank(k), "return_data"))]
  /\ sends' = Append(sends, [dest |-> request_rank(k), body |-> "return_data"])
  /\ IF k + 1 = request_count(size)
       THEN /\ pc' = [pc EXCEPT ![MASTER_RANK] = "recv"]
            /\ k' = 0
       ELSE /\ k' = k + 1
            /\ UNCHANGED pc
  /\ UNCHANGED <<inputs, i, tweet, occurrences, err, counts, toMaster, counted,
                 returned, got, nsent, merged, presented, recvs, mergevars>>

\* for i in range(processes-1): counts.append(comm.recv(source=i+1, tag=0));
\* after the last one master_tweet_processor folds counts into occurrences.
receive_count_short(processes) == processes - 2

receive_count_one(processes) == IF processes > 1 THEN 1 ELSE 0

receive_count(processes) == processes - 1

SeqRange(q) == { q[j] : j \in 1 .. Len(q) }

Receive ==
  /\ pc[MASTER_RANK] = "recv"
  /\ k < receive_count(size)
  /\ LET j == FirstMatch(toMaster[k + 1], MASTER_RANK)
     IN  /\ j # 0
         /\ toMaster' = [toMaster EXCEPT ![k + 1] = RemoveAt(@, j)]
         /\ counts' = Append(counts, toMaster[k + 1][j].body)
  /\ recvs' = Append(recvs, k + 1)
  /\ IF k + 1 = receive_count(size)
       THEN /\ occurrences' = [occurrences EXCEPT
                                 ![MASTER_RANK] = merge_all(@, counts')]
            /\ merged' = SeqRange(recvs')
            /\ pc' = [pc EXCEPT ![MASTER_RANK] = "send_exit"]
            /\ k' = 0
       ELSE /\ k' = k + 1
            /\ UNCHANGED <<pc, occurrences, merged>>
  /\ UNCHANGED <<inputs, i, tweet, err, toWorker, counted, returned, got,
                 nsent, presented, sends, mergevars>>

\* --------------------------------------------------- master_tweet_processor
\* for i in range(size-1): comm.send('exit', dest=i+1, tag=i+1)
exit_count_short(sz) == sz - 2

exit_count_one(sz) == IF sz > 1 THEN 1 ELSE 0

exit_count(sz) == sz - 1

SendExit ==
  /\ pc[MASTER_RANK] = "send_exit"
  /\ k < exit_count(size)
  /\ toWorker' = [toWorker EXCEPT ![k + 1] = Append(@, Msg(k + 1, "exit"))]
  /\ sends' = Append(sends, [dest |-> k + 1, body |-> "exit"])
  /\ IF k + 1 = exit_count(size)
       THEN /\ pc' = [pc EXCEPT ![MASTER_RANK] = "print"]
            /\ k' = 0
       ELSE /\ k' = k + 1
            /\ UNCHANGED pc
  /\ UNCHANGED <<inputs, i, tweet, occurrences, err, counts, toMaster, counted,
                 returned, got, nsent, merged, presented, recvs, mergevars>>

\* print_output(occurrences, stype, squery), then main returns.
PrintOutput ==
  /\ pc[MASTER_RANK] = "print"
  /\ presented' = <<occurrences[MASTER_RANK]>>
  /\ pc' = [pc EXCEPT ![MASTER_RANK] = "done"]
  /\ UNCHANGED <<inputs, i, tweet, occurrences, err, k, counts, toWorker,
                 toMaster, counted, returned, got, nsent, merged, sends, recvs,
                 mergevars>>

\* ---------------------------------------------------- slave_tweet_processor
\* What the loop body does with a received str: "send" the counts back,
\* "exit" the process, or "ignore" it.
dispatch_flush_on_exit(in_comm) ==
  IF InStr(in_comm, "return_data") \/ InStr(in_comm, "exit") THEN "send"
  ELSE "ignore"

dispatch_always_send(in_comm) == "send"

dispatch(in_comm) ==
  IF InStr(in_comm, "return_data") THEN "send"
  ELSE IF InStr(in_comm, "exit") THEN "exit"
  ELSE "ignore"

\* Received objects that are not a str are written with a leading "#".
NonStrings == {"#7"}

\* if isinstance(in_comm, str): ...
handle(in_comm) ==
  IF in_comm \notin NonStrings THEN dispatch(in_comm) ELSE "ignore"

\* One pass of 'while True' in which the receive yields the j-th message of
\* the channel: the worker acts on that command.
CommandAt(r, j) ==
  /\ pc[r] = "await"
  /\ LET in_comm == toWorker[r][j].body
     IN  /\ j # 0
         /\ toWorker' = [toWorker EXCEPT ![r] = RemoveAt(@, j)]
         /\ got' = [got EXCEPT ![r] = Append(@, in_comm)]
         /\ IF handle(in_comm) = "send"
              THEN /\ toMaster' = [toMaster EXCEPT
                                     ![r] = Append(@, Msg(MASTER_RANK, occurrences[r]))]
                   /\ nsent' = [nsent EXCEPT ![r] = @ + 1]
                   /\ UNCHANGED pc
            ELSE IF handle(in_comm) = "exit"
              THEN /\ pc' = [pc EXCEPT ![r] = "exited"]
                   /\ UNCHANGED <<toMaster, nsent>>
            ELSE UNCHANGED <<pc, toMaster, nsent>>
  /\ UNCHANGED <<inputs, i, tweet, occurrences, err, k, counts, counted,
                 returned, merged, presented, sends, recvs, mergevars>>

\* One pass of 'while True': receive a command and act on it.
Command(r) == CommandAt(r, FirstMatch(toWorker[r], r))

\* ------------------------------------------------------------------- Next
Proc(r) ==
  \/ Open(r)
  \/ ReadRow(r)
  \/ Command(r)

Master ==
  \/ SendRequest
  \/ Receive
  \/ SendExit
  \/ PrintOutput

Next ==
  \/ \E r \in Ranks : Open(r)
  \/ \E r \in Ranks : ReadRow(r)
  \/ \E r \in Ranks : Command(r)
  \/ SendRequest
  \/ Receive
  \/ SendExit
  \/ PrintOutput

Spec == Init /\ [][Next]_vars

\* Every process that can take a step eventually takes one, and a message
\* that was sent can be received.
FairSpec ==
  /\ Spec
  /\ \A r \in 0 .. MaxProcs - 1 : WF_vars(r \in Ranks /\ Proc(r))
  /\ WF_vars(Master)

\* ----------------------------------------------- a worker under any master
\* The worker loop serves whatever commands rank 0 puts on its channel:
\* here rank 0's commands come in any order, at most MaxCommands per worker.
MaxCommands == 2

Commands == {"return_data", "exit"}

Inject(r, c) ==
  /\ r \in Workers
  /\ pc[r] = "await"
  /\ Len(toWorker[r]) + Len(got[r]) < MaxCommands
  /\ toWorker' = [toWorker EXCEPT ![r] = Append(@, Msg(r, c))]
  /\ UNCHANGED <<inputs, pc, i, tweet, occurrences, err, k, counts, toMaster,
                 history, mergevars>>

NextEnv ==
  \/ Next
  \/ \E r \in 0 .. MaxProcs - 1, c \in Commands : Inject(r, c)

\* The command handling does not depend on the input: one search type and at
\* most one row.
InitEnv ==
  /\ Init
  /\ stype = "mentions"
  /\ Len(rows) <= 1

SpecEnv == InitEnv /\ [][NextEnv]_vars

\* ------------------------------------------- a worker fed with any value
\* The worker loop receives whatever object arrives from rank 0 with its tag:
\* the two commands, other strings, parts of the commands, and a non-str.
AnyValues == Commands \cup {"", "it", "stop"} \cup NonStrings

NextAny ==
  \/ Next
  \/ \E r \in 0 .. MaxProcs - 1, c \in AnyValues : Inject(r, c)

InitAny ==
  /\ Init
  /\ size <= 2
  /\ stype = "mentions"
  /\ Len(rows) <= 1
  /\ \A r \in Ranks : openOK[r]

SpecAny == InitAny /\ [][NextAny]_vars

\* ------------------------------------------------------ synchronous sends
\* Every comm.send behaves as a synchronous send: it completes only when the
\* destination has posted the matching comm.recv and that receive is not
\* already matched by an earlier message.

\* Worker w is in comm.recv(source=MASTER_RANK, tag=rank), unmatched.
WorkerRecvPosted(w) == pc[w] = "await" /\ toWorker[w] = <<>>

\* Rank 0 is in comm.recv(source=w, tag=MASTER_RANK), unmatched.
MasterRecvPosted(w) ==
  /\ pc[MASTER_RANK] = "recv"
  /\ k < receive_count(size)
  /\ k + 1 = w
  /\ toMaster[w] = <<>>

SyncSendRequest ==
  /\ pc[MASTER_RANK] = "send_req"
  /\ k < request_count(size)
  /\ WorkerRecvPosted(request_rank(k))
  /\ SendRequest

SyncSendExit ==
  /\ pc[MASTER_RANK] = "send_exit"
  /\ k < exit_count(size)
  /\ WorkerRecvPosted(k + 1)
  /\ SendExit

\* The worker's receive completes; its comm.send(occurrences, ...) completes
\* once rank 0 is in the receive for this worker.
SyncCommand(r) ==
  /\ pc[r] = "await"
  /\ FirstMatch(toWorker[r], r) # 0
  /\ handle(toWorker[r][FirstMatch(toWorker[r], r)].body) = "send"
       => MasterRecvPosted(r)
  /\ Command(r)

NextSync ==
  \/ \E r \in Ranks : Open(r)
  \/ \E r \in Ranks : ReadRow(r)
  \/ \E r \in Ranks : SyncCommand(r)
  \/ SyncSendRequest
  \/ Receive
  \/ SyncSendExit
  \/ PrintOutput

SpecSync == Init /\ [][NextSync]_vars

\* ------------------------------------------------- out-of-order delivery
\* The same program over a transport without the non-overtaking rule: a
\* worker's receive may yield any message addressed to it, not the earliest.
CommandAny(r) ==
  \E j \in 1 .. Len(toWorker[r]) :
    /\ toWorker[r][j].tag = r
    /\ CommandAt(r, j)

NextReorder ==
  \/ \E r \in Ranks : Open(r)
  \/ \E r \in Ranks : ReadRow(r)
  \/ \E r \in Ranks : CommandAny(r)
  \/ SendRequest
  \/ Receive
  \/ SendExit
  \/ PrintOutput

SpecReorder == Init /\ [][NextReorder]_vars

FairSpecReorder ==
  /\ SpecReorder
  /\ \A r \in 0 .. MaxProcs - 1 :
       WF_vars(r \in Ranks /\ (Open(r) \/ ReadRow(r) \/ CommandAny(r)))
  /\ WF_vars(Master)

\* ------------------------------------------------------------- merge laws
MergeKeys == {Tok("@", "a"), Tok("#", "t")}

Tables == UNION { [ks -> 1 .. MaxCount] : ks \in SUBSET MergeKeys }

InitMerge ==
  /\ mA \in Tables /\ mB \in Tables /\ mC \in Tables
  /\ mres = <<>>
  /\ size = 1
  /\ stype = "mentions"
  /\ squery = ""
  /\ rows = <<>>
  /\ openOK = [r \in {0} |-> TRUE]
  /\ pc = [r \in {0} |-> "done"]
  /\ i = [r \in {0} |-> 0]
  /\ tweet = [r \in {0} |-> Unbound]
  /\ occurrences = [r \in {0} |-> EmptyTable]
  /\ err = [r \in {0} |-> "none"]
  /\ k = 0
  /\ counts = <<>>
  /\ toWorker = [r \in {0} |-> <<>>]
  /\ toMaster = [r \in {0} |-> <<>>]
  /\ counted = [r \in {0} |-> <<>>]
  /\ returned = [r \in {0} |-> <<EmptyTable>>]
  /\ got = [r \in {0} |-> <<>>]
  /\ nsent = [r \in {0} |-> 0]
  /\ merged = {}
  /\ presented = <<EmptyTable>>
  /\ sends = <<>>
  /\ recvs = <<>>

\* Fold the three tables both ways round, as the accumulating loops do.
ApplyMerge ==
  /\ mres = <<>>
  /\ mres' = [ab_c |-> merge(merge(mA, mB), mC),
              a_bc |-> merge(mA, merge(mB, mC)),
              ab   |-> merge(mA, mB),
              ba   |-> merge(mB, mA),
              a_e  |-> merge(mA, EmptyTable)]
  /\ UNCHANGED <<inputs, pc, i, tweet, occurrences, err, k, counts, toWorker,
                 toMaster, history, mA, mB, mC>>

NextMerge == ApplyMerge

SpecMerge == InitMerge /\ [][NextMerge]_vars

\* ------------------------------------- process_tweet as a pure function
\* The four mode values the description names.
Modes == {"mentions", "topics", "topic", "string_search"}

\* The branch print_output takes for a search type.
print_output(st) ==
  IF InStr(st, "mentions") THEN "print_mentions"
  ELSE IF InStr(st, "topics") THEN "print_topics"
  ELSE IF InStr(st, "string_search") THEN "print_matches"
  ELSE "none"

InitCount ==
  /\ mA \in Tables /\ mB = EmptyTable /\ mC = EmptyTable
  /\ mres = <<>>
  /\ size = 1
  /\ stype \in Modes
  /\ squery \in (IF stype = "string_search" THEN {"a", "t"} ELSE {""})
  /\ rows = <<>>
  /\ openOK = [r \in {0} |-> TRUE]
  /\ pc = [r \in {0} |-> "done"]
  /\ i = [r \in {0} |-> 0]
  /\ tweet \in [{0} -> { Dict(tx) : tx \in SeqsUpTo(MergeKeys, MaxRecords) }]
  /\ occurrences = [r \in {0} |-> EmptyTable]
  /\ err = [r \in {0} |-> "none"]
  /\ k = 0
  /\ counts = <<>>
  /\ toWorker = [r \in {0} |-> <<>>]
  /\ toMaster = [r \in {0} |-> <<>>]
  /\ counted = [r \in {0} |-> <<>>]
  /\ returned = [r \in {0} |-> <<EmptyTable>>]
  /\ got = [r \in {0} |-> <<>>]
  /\ nsent = [r \in {0} |-> 0]
  /\ merged = {}
  /\ presented = <<EmptyTable>>
  /\ sends = <<>>
  /\ recvs = <<>>

\* process_tweet(counts, stype, squery, tweet) on the table mA, and the
\* branch print_output takes for the same search type.
ApplyCount ==
  /\ mres = <<>>
  /\ mres' = [res   |-> process_tweet(mA, stype, squery, tweet[0]),
              shown |-> print_output(stype)]
  /\ UNCHANGED <<inputs, pc, i, tweet, occurrences, err, k, counts, toWorker,
                 toMaster, history, mA, mB, mC>>

NextCount == ApplyCount

SpecCount == InitCount /\ [][NextCount]_vars

\* ================================================================== claims
Count(q, x) == Cardinality({ j \in 1 .. Len(q) : q[j] = x })

\* Compared key by key.
SameTable(x, y) ==
  /\ DOMAIN x = DOMAIN y
  /\ \A key \in DOMAIN x : x[key] = y[key]

RunEnded == \A r \in Ranks : pc[r] \in {"done", "exited", "crashed"}

RunComplete ==
  /\ pc[MASTER_RANK] = "done"
  /\ \A w \in Workers : pc[w] = "exited"

\* Every rank can open the file and the reader raises no csv.Error.
SourceSound ==
  /\ \A r \in Ranks : openOK[r]
  /\ \A j \in 1 .. Len(rows) : ~rows[j].csvError

\* C1: over a full run on a sound source every (well-formed) record index is
\* counted exactly once, by the rank equal to index mod size, and no rank
\* ever counts an index outside its partition.
C1_EachRecordCountedByItsRank ==
  /\ \A r \in Ranks : \A j \in 1 .. Len(counted[r]) :
       counted[r][j] % size = r
  /\ (SourceSound /\ RunEnded) =>
       \A idx \in 0 .. Len(rows) - 1 :
         rows[idx + 1].value.wellformed =>
           \A r \in Ranks :
             Count(counted[r], idx) = IF r = idx % size THEN 1 ELSE 0

\* The table a single-process run is to produce: every well-formed record
\* decoded and counted once, in order.
RECURSIVE SingleProcessTable(_, _)
SingleProcessTable(acc, rs) ==
  IF rs = <<>> THEN acc
  ELSE SingleProcessTable(
         IF Head(rs).value.wellformed
           THEN process_tweet(acc, stype, squery, Dict(Head(rs).value.text)).value
           ELSE acc,
         Tail(rs))

\* C2: a run with size > 1 on a sound source ends with the master handing
\* over the same table as a single-process run over the same input.
C2_DistributedEqualsSingle ==
  (SourceSound /\ RunEnded /\ size > 1
     /\ \A j \in 1 .. Len(rows) : rows[j].value.wellformed) =>
    /\ presented # <<>>
    /\ SameTable(presented[1], SingleProcessTable(EmptyTable, rows))

\* C8: a record of a rank's own partition that fails to decode never stops
\* that rank: no rank is ended by an exception at a malformed row of its own.
C8_MalformedRecordSkipped ==
  \A r \in Ranks :
    (pc[r] = "crashed" /\ openOK[r] /\ i[r] < Len(rows)) =>
      ~(/\ in_partition(i[r], size, r)
        /\ ~rows[i[r] + 1].value.wellformed)

\* Sum over the ranks of S of the count each returned for key.
RECURSIVE SumOver(_, _)
SumOver(S, key) ==
  IF S = {} THEN 0
  ELSE LET r == CHOOSE x \in S : TRUE
       IN  Get(returned[r][1], key) + SumOver(S \ {r}, key)

\* C3: the table handed to print_output is the per-key sum of the tables all
\* ranks returned from process_tweets, and no worker's table is unmerged.
C3_HandOffIsSumOfAllRanks ==
  presented # <<>> =>
    /\ \A r \in Ranks : returned[r] # <<>>
    /\ merged = Workers
    /\ \A w \in Workers : toMaster[w] = <<>>
    /\ DOMAIN presented[1] = UNION { DOMAIN returned[r][1] : r \in Ranks }
    /\ \A key \in DOMAIN presented[1] : presented[1][key] = SumOver(Ranks, key)

C3_Witness == presented # <<>> /\ size > 1 /\ merged = Workers

\* C4: once every rank has finished its local counting, the run terminates:
\* both commands were sent to every worker, every worker received 'exit' and
\* exited, and the master reached print_output.
AllCounted == \A r \in Ranks : returned[r] # <<>>

Terminated ==
  /\ RunComplete
  /\ presented # <<>>
  /\ \A w \in Workers :
       /\ Count(sends, [dest |-> w, body |-> "return_data"]) >= 1
       /\ Count(sends, [dest |-> w, body |-> "exit"]) >= 1
       /\ got[w] # <<>>
       /\ got[w][Len(got[w])] = "exit"

C4_EveryRunTerminates == AllCounted ~> Terminated

C4_Witness == Terminated /\ size > 1

\* C5: a worker sends its table only in answer to a 'return_data' it
\* received, never more than once, and exactly once in a complete run.
C5_TableSentOnceOnRequest ==
  \A w \in Workers :
    /\ nsent[w] = Count(got[w], "return_data")
    /\ nsent[w] = Len(toMaster[w]) + Count(recvs, w)
    /\ nsent[w] <= 1
    /\ RunComplete => nsent[w] = 1

C5_Witness == RunComplete /\ size > 1 /\ \A w \in Workers : nsent[w] = 1

\* C6: a worker whose first received command is 'exit' has exited and has
\* sent no table.
C6_ExitFirstSendsNothing ==
  \A w \in Workers :
    (got[w] # <<>> /\ got[w][1] = "exit") =>
      /\ pc[w] = "exited"
      /\ nsent[w] = 0
      /\ toMaster[w] = <<>>
      /\ got[w] = <<"exit">>

C6_Witness == \E w \in Workers : got[w] = <<"exit">> /\ pc[w] = "exited"

\* C7: with a single process nothing is sent or received, the master never
\* enters the collection or release loops, every row index is in its own
\* partition, and what it prints is the table its own process_tweets returned.
C7_SingleProcessNoMessaging ==
  size = 1 =>
    /\ sends = <<>> /\ recvs = <<>> /\ counts = <<>>
    /\ toWorker[MASTER_RANK] = <<>> /\ toMaster[MASTER_RANK] = <<>>
    /\ pc[MASTER_RANK] \in {"open", "rows", "print", "done", "crashed"}
    /\ \A idx \in 0 .. Len(rows) - 1 : in_partition(idx, size, MASTER_RANK)
    /\ presented # <<>> => presented = returned[MASTER_RANK]

C7_Witness == size = 1 /\ presented # <<>> /\ pc[MASTER_RANK] = "done"

\* Rank r stopped reading at a row for which the reader raised csv.Error.
HitCsvError(r) ==
  /\ openOK[r]
  /\ pc[r] \notin {"open", "rows"}
  /\ i[r] < Len(rows)
  /\ rows[i[r] + 1].csvError

NoResult(r) ==
  /\ returned[r] = <<>>
  /\ nsent[r] = 0
  /\ r = MASTER_RANK => presented = <<>>

C10_MergeLaws ==
  mres # <<>> =>
    /\ SameTable(mres.ab_c, mres.a_bc)
    /\ SameTable(mres.ab, mres.ba)
    /\ SameTable(mres.a_e, mA)

C10_Witness ==
  /\ mres # <<>>
  /\ DOMAIN mA \cap DOMAIN mB # {}
  /\ mA # mB
  /\ mC # EmptyTable

\* C11: the master has returned from its own process_tweets before it sends
\* anything, and it has sent 'return_data' to every worker before it posts
\* its first receive.
RequestedFrom(w) == Count(sends, [dest |-> w, body |-> "return_data"]) >= 1

C11_CountThenRequestThenCollect ==
  /\ sends # <<>> => returned[MASTER_RANK] # <<>>
  /\ pc[MASTER_RANK] = "send_req" => returned[MASTER_RANK] # <<>>
  /\ (pc[MASTER_RANK] = "recv" \/ recvs # <<>>) =>
       \A w \in Workers : RequestedFrom(w)

C11_Witness ==
  /\ size > 2
  /\ pc[MASTER_RANK] = "recv"
  /\ recvs = <<>>
  /\ \A w \in Workers : RequestedFrom(w)

\* C12: a worker consumes 'return_data' before 'exit'; the master sends
\* 'exit' only after it has received the table of every worker; and no
\* 'return_data' is sent after an 'exit'.
C12_RequestBeforeExit ==
  /\ \A w \in Workers :
       got[w] \in {<<>>, <<"return_data">>, <<"return_data", "exit">>}
  /\ (\E j \in 1 .. Len(sends) : sends[j].body = "exit") =>
       /\ SeqRange(recvs) = Workers
       /\ Len(recvs) = size - 1
  /\ \A a, b \in 1 .. Len(sends) :
       (a < b /\ sends[a].body = "exit") => sends[b].body = "exit"

C12_Witness ==
  /\ size > 2
  /\ \A w \in Workers : got[w] = <<"return_data", "exit">>

\* Worker w consumed 'exit' before any 'return_data'.
ExitOvertook(w) ==
  /\ got[w] # <<>>
  /\ got[w][1] = "exit"

\* C13 as stated: with out-of-order delivery on the master-to-worker
\* channels, a run in which every rank finished counting comes to a state in
\* which a worker has consumed 'exit' before 'return_data'.
C13_ExitOvertakesRequest ==
  (size > 1 /\ AllCounted) ~> (\E w \in Workers : ExitOvertook(w))

\* C13 amended: even with out-of-order delivery no worker consumes 'exit'
\* before 'return_data': the two commands are never in flight to the same
\* worker together, because 'exit' is sent after the worker's answer arrived.
C13_NoOvertakingWithoutFifo ==
  \A w \in Workers :
    /\ ~ExitOvertook(w)
    /\ Len(toWorker[w]) <= 1
    /\ got[w] \in {<<>>, <<"return_data">>, <<"return_data", "exit">>}

C13_Witness ==
  /\ size > 2
  /\ \E w \in Workers :
       /\ toWorker[w] = <<Msg(w, "exit")>>
       /\ got[w] = <<"return_data">>

\* What rank r's process_tweets yields when run on its own from row idx on:
\* the returned table, or the exception that ends the rank.
RECURSIVE LocalRun(_, _, _, _)
LocalRun(r, idx, tw0, occ) ==
  IF idx = Len(rows) \/ csv_error_ends_loop(rows[idx + 1]) THEN Ok(occ)
  ELSE LET tw == IF in_partition(idx, size, r) THEN Str(rows[idx + 1].value)
                 ELSE tw0
           d == tweet_to_json(tw)
           p == process_tweet(occ, stype, squery, d.value)
       IN  IF tw = Unbound THEN Raise("UnboundLocalError")
           ELSE IF d.exc = "ValueError" THEN LocalRun(r, idx + 1, tw, occ)
           ELSE IF d.exc # "none" THEN Raise(d.exc)
           ELSE IF p.exc # "none" THEN Raise(p.exc)
           ELSE LocalRun(r, idx + 1, d.value, p.value)

SequentialResult(r) ==
  IF open_fails(openOK[r]) THEN Raise("OSError")
  ELSE LocalRun(r, 0, Unbound, EmptyTable)

AllComputable == \A r \in Ranks : SequentialResult(r).exc = "none"

\* The table fixed by the input alone: the ranks' tables folded in rank order.
FinalTable ==
  merge_all(SequentialResult(MASTER_RANK).value,
            [w \in 1 .. size - 1 |-> SequentialResult(w).value])

\* Every rank meets the same source.
UniformSource == \A r, q \in Ranks : openOK[r] = openOK[q]

\* C14: whatever the interleaving, the run ends with every process
\* terminated, which ranks ended by an exception is fixed by the input, and
\* the table the master ends with is the one fixed by the input.
C14_OutcomeIndependentOfTiming ==
  /\ [](presented # <<>> =>
          /\ AllComputable
          /\ SameTable(presented[1], FinalTable))
  /\ [](\A r \in Ranks :
          /\ pc[r] = "crashed" => SequentialResult(r).exc = err[r]
          /\ returned[r] # <<>> => SequentialResult(r) = Ok(returned[r][1]))
  /\ UniformSource =>
       <>[](/\ RunEnded
            /\ AllComputable => (RunComplete /\ presented = <<FinalTable>>)
            /\ ~AllComputable => presented = <<>>)

\* A later worker's answer is in flight while the master waits for an
\* earlier worker's.
C14_Witness ==
  /\ size > 2
  /\ pc[MASTER_RANK] = "recv"
  /\ k = 0
  /\ toMaster[1] = <<>>
  /\ toMaster[2] # <<>>

\* The bodies of the messages of q, in order.
Bodies(q) == [j \in 1 .. Len(q) |-> q[j].body]

\* The commands sent to rank r, in order.
RECURSIVE SentTo(_, _)
SentTo(q, r) ==
  IF q = <<>> THEN <<>>
  ELSE (IF Head(q).dest = r THEN <<Head(q).body>> ELSE <<>>) \o SentTo(Tail(q), r)

\* C15: commands go to workers only, each on its addressee's channel with
\* the addressee's rank as tag, and are consumed by the addressee in the
\* order sent; answers go to rank 0 with tag 0; and what the master receives
\* for source rank r is the table rank r returned from process_tweets, which
\* the worker has not changed since.
C15_AddressingAndTablesIntact ==
  /\ toWorker[MASTER_RANK] = <<>> /\ toMaster[MASTER_RANK] = <<>>
  /\ \A j \in 1 .. Len(sends) : sends[j].dest \in Workers
  /\ \A w \in Workers :
       /\ \A j \in 1 .. Len(toWorker[w]) : toWorker[w][j].tag = w
       /\ got[w] \o Bodies(toWorker[w]) = SentTo(sends, w)
       /\ \A j \in 1 .. Len(toMaster[w]) :
            /\ toMaster[w][j].tag = MASTER_RANK
            /\ returned[w] # <<>>
            /\ SameTable(toMaster[w][j].body, returned[w][1])
       /\ returned[w] # <<>> => occurrences[w] = returned[w][1]
  /\ Len(counts) = Len(recvs)
  /\ \A j \in 1 .. Len(recvs) :
       /\ recvs[j] = j
       /\ SameTable(counts[j], returned[j][1])

C15_Witness ==
  /\ size > 2
  /\ Len(counts) = size - 1
  /\ \E w \in Workers : toWorker[w] # <<>>

\* C16: once a worker has stopped during its counting, it stays stopped, the
\* master never sends 'exit' and never reaches print_output, and no other
\* worker ever exits: one that has answered stays waiting for a command.
C16_MissingAnswerBlocksEveryone ==
  /\ [][\A w \in Workers : pc[w] = "crashed" => pc'[w] = "crashed"]_vars
  /\ []((\E w \in Workers : pc[w] = "crashed") =>
          /\ \A j \in 1 .. Len(sends) : sends[j].body # "exit"
          /\ presented = <<>>
          /\ pc[MASTER_RANK] \notin {"send_exit", "print", "done"}
          /\ \A v \in Workers :
               /\ pc[v] # "exited"
               /\ nsent[v] >= 1 => pc[v] = "await")

C16_Witness ==
  /\ size > 2
  /\ pc[MASTER_RANK] = "recv"
  /\ \E w, v \in Workers :
       /\ pc[w] = "crashed"
       /\ nsent[v] = 1 /\ pc[v] = "await" /\ toWorker[v] = <<>>

\* C20: when the master is done it has sent one 'return_data' and one 'exit'
\* to each worker and nothing else, and has received one table per worker;
\* when every process has terminated every channel is empty.
C20_MessageConservation ==
  /\ pc[MASTER_RANK] = "done" =>
       /\ \A w \in Workers :
            /\ Count(sends, [dest |-> w, body |-> "return_data"]) = 1
            /\ Count(sends, [dest |-> w, body |-> "exit"]) = 1
            /\ Count(recvs, w) = 1
       /\ Len(sends) = 2 * (size - 1)
       /\ Len(recvs) = size - 1
       /\ Len(counts) = size - 1
  /\ RunComplete =>
       \A r \in Ranks : toWorker[r] = <<>> /\ toMaster[r] = <<>>

C20_Witness ==
  /\ RunComplete
  /\ size > 2
  /\ Len(sends) = 2 * (size - 1)
  /\ \A r \in Ranks : toWorker[r] = <<>> /\ toMaster[r] = <<>>

\* C17: a worker sends its table only for the value 'return_data' and exits
\* only for the value 'exit'; every other received value changes nothing.
C17_OnlyExactCommandsAct ==
  \A w \in Workers :
    /\ nsent[w] = Count(got[w], "return_data")
    /\ pc[w] = "exited" => (got[w] # <<>> /\ got[w][Len(got[w])] = "exit")
    /\ (got[w] # <<>> /\ got[w][Len(got[w])] = "exit") => pc[w] = "exited"
    /\ returned[w] # <<>> => occurrences[w] = returned[w][1]

\* The tokens of a text a mode is described to count: those with the mode's
\* prefix, or the words equal to the query.
ModeKeys(st, sq, text) ==
  IF st = "mentions" THEN { text[j] : j \in { n \in DOMAIN text : text[n].sigil = "@" } }
  ELSE IF st \in {"topics", "topic"}
    THEN { text[j] : j \in { n \in DOMAIN text : text[n].sigil = "#" } }
  ELSE IF \E n \in DOMAIN text : text[n].word = sq THEN {Tok("", sq)} ELSE {}

ModeTable(st, sq, text) ==
  [key \in ModeKeys(st, sq, text) |->
     IF st = "string_search"
       THEN Cardinality({ n \in DOMAIN text : text[n].word = sq })
       ELSE Count(text, key)]

\* C18: for each of the four mode values the counting function yields a
\* table: @-tokens for mentions, #-tokens for topics and for topic, matches of
\* the query for string_search, added to the table passed in.
C18_EachModeCounts ==
  mres # <<>> =>
    /\ mres.res.exc = "none"
    /\ SameTable(mres.res.value,
                 merge(mA, ModeTable(stype, squery, tweet[0].text)))

\* C19: with synchronous sends, more than one process and every process
\* through its local counting, the run is either complete or some process
\* can take a step: no state has everyone blocked on a send or a receive.
C19_NoDeadlockWithSynchronousSends ==
  (size > 1 /\ AllCounted) => (RunComplete \/ ENABLED NextSync)

\* A complete run of more than two processes in which every request, reply
\* and exit was handed over synchronously.
C19_Witness ==
  /\ size > 2
  /\ RunComplete
  /\ Len(sends) = 2 * (size - 1)
  /\ Len(recvs) = size - 1

====
